---- MODULE Spec2Model ----
(***************************************************************************)
(* State-machine model of streamlit_app.py: the Streamlit script that      *)
(* authenticates against Spotify (authorization-code flow, expiry check,   *)
(* refresh), walks the paginated playlist / playlist-item endpoints and    *)
(* runs the colour/track game.  One Streamlit session owns one             *)
(* st.session_state (ss) and one query string (qp); every widget event     *)
(* re-runs the whole script top to bottom for that session.                *)
(***************************************************************************)
EXTENDS Integers, Sequences, FiniteSets, TLC

\* ---------------------------------------------------------------- bounds
\* Last instant of the wall clock (time.time()); the clock starts at 1.
MaxTime == 2
\* Lifetime ("expires_in") the token endpoint gives every credential.
ExpiresIn == 1
\* Pages the remote holds for one paginated endpoint, and items per page.
MaxPages == 2
MaxItems == 2
\* Largest value entered in the two number inputs of the Setup page.
MaxTeams == 2
MaxPlayersPerTeam == 2
\* How many of the five colours of COLORS the model keeps.
NumColors == 2
\* Script runs explored, all sessions together.
MaxRuns == 6
\* Script runs explored from the Setup page on.
MaxGameRuns == 7
\* random.randint(1, 6) draws the roll from 1..6; the model keeps the
\* faces 1..MaxRoll.
MaxRoll == 2


\* ------------------------------------------------------------- constants
Sessions == {1, 2}
AllColors == <<"Red", "Orange", "Yellow", "Blue", "Purple">>
COLORS == SubSeq(AllColors, 1, NumColors)
ColorSet == {COLORS[i] : i \in 1..Len(COLORS)}
Pages == {"About", "Setup", "Game Play"}
NoneOption == "-- None --"
\* Authorization codes the authorization endpoint may have put in the URL.
Codes == {"c1", "c2"}
None == "None"

\* ------------------------------------------------------- python helpers
\* Optional values (x or None) are sequences of length at most one.
Nothing == <<>>
Some(x) == <<x>>
IsSet(o) == o # <<>>
Val(o) == o[1]

EmptyDict == [k \in {} |-> None]
DictSet(d, k, v) == [x \in DOMAIN d \cup {k} |-> IF x = k THEN v ELSE d[x]]
DictGet(d, k, default) == IF k \in DOMAIN d THEN d[k] ELSE default

RECURSIVE Concat(_)
Concat(seqs) == IF seqs = <<>> THEN <<>> ELSE Head(seqs) \o Concat(Tail(seqs))

Range(f) == {f[x] : x \in DOMAIN f}

\* ------------------------------------------------------ the remote's data
\* A playlist object and a playlist item.  A playlist item carries a track
\* or null (item.get("track") is None for an unavailable track).
Playlist(id, name) == [id |-> id, name |-> name]
Item(track) == [track |-> track]
Tracks == {"t1", "t2"}

\* One page of a paginated endpoint: its items and whether "next" is set.
Page(items, more) == [items |-> items, next |-> more]

\* What the remote serves to the app: the user's playlists (two pages) ...
UserPlaylistPages ==
    << Page(<<Playlist("p1", "Rock")>>, TRUE),
       Page(<<Playlist("p2", "Jazz")>>, FALSE) >>

\* ... and the items of each playlist: p1 has two pages, one item of which
\* has no track; p2 is an empty playlist.
PlaylistItemPages(pid) ==
    IF pid = "p1"
    THEN << Page(<<Item("t1")>>, TRUE),
            Page(<<Item(None), Item("t2")>>, FALSE) >>
    ELSE << Page(<<>>, FALSE) >>

\* --------------------------------------------------------------- state
VARIABLES
    now,        \* time.time()
    configured, \* the three SPOTIPY_* secrets are all present
    consumed,   \* remote: authorization codes already exchanged
    runs,       \* script runs started so far, all sessions
    actor,      \* the session that took the last step (0: the clock)
    ss,         \* st.session_state of each session
    qp,         \* st.query_params "code" of each session
    pc,         \* where each session's script run stands
    ev,         \* the widget event that triggered the current run
    sp,         \* the spotipy client of the current run
    screen,     \* the last finished run rendered the sidebar and a page
    fetch,      \* the paginated fetch in progress
    loop,       \* colours left in the "for color, pid in ..." loop
    shown,      \* what the session's runs last reported to the user
    sent,       \* was the credential expired when the last API request left
    submitted   \* authorization codes this session has sent for exchange

vars == <<now, configured, consumed, runs, actor, ss, qp, pc, ev, sp, screen,
          fetch, loop, shown, sent, submitted>>

\* Session state defaults (the ss.setdefault calls).
Defaults ==
    [ page                 |-> "About",
      token_info           |-> Nothing,
      all_playlists        |-> <<>>,
      color_playlists      |-> EmptyDict,
      tracks_cache         |-> EmptyDict,
      teams_count          |-> 2,
      players_per_team     |-> 2,
      player_order         |-> <<>>,
      current_player_index |-> 0,
      last_roll            |-> 0,
      current_color        |-> None,
      current_track        |-> None,
      reveal_answer        |-> FALSE,
      timer_running        |-> FALSE,
      timer_started_at     |-> Nothing,
      elapsed_last_round   |-> Nothing ]

\* Widget events: each run is triggered by one of them, or by none (a plain
\* rerun).  A widget's event is observed where the script evaluates the
\* widget; ev records whether the run's event is still to be observed.
Event(widget, page, n) == [widget |-> widget, page |-> page, n |-> n]
NoEvent == Event("none", None, 0)
Click(label) == Event(label, None, 0)

\* No fetch in progress.
NoFetch ==
    [status |-> "none", kind |-> None, table |-> <<>>, cursor |-> 0,
     acc |-> <<>>, requests |-> 0, failed |-> FALSE, ret |-> <<>>]

InitCommon ==
    /\ now = 1
    /\ runs = 0
    /\ actor = 0
    /\ ss = [s \in Sessions |-> Defaults]
    /\ pc = [s \in Sessions |-> "idle"]
    /\ ev = [s \in Sessions |-> "none"]
    /\ screen = [s \in Sessions |-> FALSE]
    /\ loop = [s \in Sessions |-> <<>>]
    /\ shown = [s \in Sessions |-> "none"]
    /\ sent = [s \in Sessions |-> "none"]
    /\ submitted = [s \in Sessions |-> {}]

\* No run has begun: no client, no fetch.
InitIdle ==
    /\ sp = [s \in Sessions |-> Nothing]
    /\ fetch = [s \in Sessions |-> NoFetch]

\* A session is a browser page load: its query string either has no code
\* or has the code the authorization endpoint redirected with, which an
\* earlier page load of the same URL may have had exchanged already.
Init ==
    /\ InitCommon
    /\ InitIdle
    /\ consumed \in SUBSET {"c1"}
    /\ configured \in BOOLEAN
    /\ \E code \in {"c1", None} :
          qp = [s \in Sessions |-> IF s = 1 THEN code ELSE None]

\* ----------------------------------------------------------- the clock
Tick ==
    /\ now < MaxTime
    /\ now' = now + 1
    /\ actor' = 0
    /\ UNCHANGED <<configured, consumed, runs, ss, qp, pc, ev, sp, screen, fetch,
                   loop, shown, sent, submitted>>

\* ------------------------------------------------- session-state writes
\* ss.<field> = value, in session s.
SetField(all, s, field, value) == [all EXCEPT ![s][field] = value]

\* ss.token_info = value
StoreTokenShared(all, s, value) ==
    [x \in DOMAIN all |-> [all[x] EXCEPT !.token_info = value]]
StoreToken(all, s, value) == SetField(all, s, "token_info", value)

\* st.stop() / the end of the script: the run is over.
StopAndGoOn(s) ==
    /\ pc' = [pc EXCEPT ![s] = IF pc[s] \in {"get_spotify_client",
                                              "check_expiry", "validate"}
                               THEN "sidebar_nav" ELSE "idle"]
    /\ ev' = [ev EXCEPT ![s] = IF pc'[s] = "idle" THEN "none" ELSE @]
    /\ sp' = [sp EXCEPT ![s] = IF pc'[s] = "idle" THEN Nothing ELSE @]
    /\ screen' = [screen EXCEPT ![s] = IsSet(sp[s])]
Stop(s) ==
    /\ pc' = [pc EXCEPT ![s] = "idle"]
    /\ ev' = [ev EXCEPT ![s] = "none"]
    /\ sp' = [sp EXCEPT ![s] = Nothing]
    /\ screen' = [screen EXCEPT ![s] = IsSet(sp[s])]

\* ------------------------------------------------------ a run begins
\* What the script observes when it evaluates `widgets`: the event that
\* triggered the run if it came from one of them, otherwise nothing.
Observed(s, widgets) ==
    IF ev[s] = "pending" THEN widgets \cup {NoEvent} ELSE {NoEvent}

\* ev after the script observed event e.
After(s, e) == IF e = NoEvent THEN ev[s] ELSE "consumed"

\* A widget event (or a plain rerun) starts the script for session s.
BeginRun(s) ==
    /\ pc[s] = "idle"
    /\ pc' = [pc EXCEPT ![s] = "get_spotify_client"]
    /\ actor' = s
    /\ UNCHANGED <<now, configured, consumed, ss, qp, ev, sp, screen, fetch,
                   loop, shown, sent, submitted>>

StartRun(s) ==
    /\ runs < MaxRuns
    /\ runs' = runs + 1
    /\ BeginRun(s)

\* --------------------------------------------------- get_spotify_client
\* sp_oauth.is_token_expired(token_info)
IsTokenExpired(tok) == now >= tok.expires_at

\* The credential the token endpoint issues at instant t, and now.
NewTokenAt(t) == [expires_at |-> t + ExpiresIn]
NewToken == NewTokenAt(now)

\* The remote accepts a request only while its access token is unexpired.
ApiAccepts(tok) == now < tok.expires_at

\* The credential status recorded for a request sent now with tok.
Status(tok) == IF now < tok.expires_at THEN "fresh" ELSE "expired"

\* except around refresh_access_token: st.error, ss.token_info = None
OnRefreshFailureKeep(all, s) == all
OnRefreshFailure(all, s) == StoreToken(all, s, Nothing)

\* except around sp.current_user(): st.error, ss.token_info = None
OnValidationFailure(all, s) == StoreToken(all, s, Nothing)

\* Lines 48-55: a secret is missing: st.error, return None, st.stop().
MissingCredentials(s) ==
    /\ pc[s] = "get_spotify_client"
    /\ ~configured
    /\ shown' = [shown EXCEPT ![s] = "missing_credentials"]
    /\ Stop(s)
    /\ actor' = s
    /\ UNCHANGED <<now, configured, consumed, runs, ss, qp, fetch, loop,
                   sent, submitted>>

\* Lines 66-79: no credential and a code in the query string: the code is
\* sent to the token endpoint.  On success the credential is stored and the
\* query string cleared; on failure the error is shown and the run stops,
\* the code still in the query string.
ExchangeCode(s) ==
    /\ pc[s] = "get_spotify_client"
    /\ configured
    /\ ~IsSet(ss[s].token_info)
    /\ qp[s] # None
    /\ submitted' = [submitted EXCEPT ![s] = @ \cup {qp[s]}]
    /\ actor' = s
    /\ \/ /\ qp[s] \notin consumed
          /\ consumed' = consumed \cup {qp[s]}
          /\ ss' = StoreToken(ss, s, Some(NewToken))
          /\ qp' = [qp EXCEPT ![s] = None]
          /\ pc' = [pc EXCEPT ![s] = "check_expiry"]
          /\ UNCHANGED <<ev, sp, screen, shown>>
       \/ /\ shown' = [shown EXCEPT ![s] = "exchange_error"]
          /\ Stop(s)
          /\ UNCHANGED <<consumed, ss, qp>>
    /\ UNCHANGED <<now, configured, runs, fetch, loop, sent>>

\* Lines 80-83: no credential and no code: the authorization URL is shown
\* and the run stops.
ShowAuthorizeUrl(s) ==
    /\ pc[s] = "get_spotify_client"
    /\ configured
    /\ ~IsSet(ss[s].token_info)
    /\ qp[s] = None
    /\ shown' = [shown EXCEPT ![s] = "authorize_url"]
    /\ Stop(s)
    /\ actor' = s
    /\ UNCHANGED <<now, configured, consumed, runs, ss, qp, fetch, loop,
                   sent, submitted>>

\* Lines 85-91, reached after an exchange or, with a stored credential,
\* straight from line 66: an expired credential is refreshed; a failed
\* refresh shows the error, clears the credential and stops the run.
CheckExpiry(s) ==
    /\ \/ pc[s] = "check_expiry"
       \/ pc[s] = "get_spotify_client" /\ configured /\ IsSet(ss[s].token_info)
    /\ actor' = s
    /\ IF IsSet(ss[s].token_info) /\ IsTokenExpired(Val(ss[s].token_info))
       THEN \/ /\ ss' = StoreToken(ss, s, Some(NewToken))
               /\ pc' = [pc EXCEPT ![s] = "validate"]
               /\ UNCHANGED <<ev, sp, screen, shown>>
            \/ /\ shown' = [shown EXCEPT ![s] = "refresh_error"]
               /\ ss' = OnRefreshFailure(ss, s)
               /\ Stop(s)
       ELSE /\ pc' = [pc EXCEPT ![s] = "validate"]
            /\ UNCHANGED <<ss, ev, sp, screen, shown>>
    /\ UNCHANGED <<now, configured, consumed, runs, qp, fetch, loop, sent,
                   submitted>>

\* Lines 93-102 and ensure_spotify: the client is built on the access token
\* and sp.current_user() validates it; a failure shows the error, clears the
\* credential and stops the run.
Validate(s) ==
    /\ pc[s] = "validate"
    /\ actor' = s
    /\ IF IsSet(ss[s].token_info)
       THEN /\ sent' = [sent EXCEPT ![s] = Status(Val(ss[s].token_info))]
            /\ \/ /\ ApiAccepts(Val(ss[s].token_info))
                  /\ sp' = [sp EXCEPT ![s] = ss[s].token_info]
                  /\ UNCHANGED screen
                  /\ shown' = [shown EXCEPT ![s] = "connected"]
                  /\ pc' = [pc EXCEPT ![s] = "sidebar_nav"]
                  /\ UNCHANGED <<ss, ev>>
               \/ /\ shown' = [shown EXCEPT ![s] = "validation_error"]
                  /\ ss' = OnValidationFailure(ss, s)
                  /\ Stop(s)
       ELSE /\ Stop(s)
            /\ UNCHANGED <<ss, shown, sent>>
    /\ UNCHANGED <<now, configured, consumed, runs, qp, fetch, loop,
                   submitted>>

GetSpotifyClient(s) ==
    \/ MissingCredentials(s)
    \/ ExchangeCode(s)
    \/ ShowAuthorizeUrl(s)
    \/ CheckExpiry(s)
    \/ Validate(s)

\* ----------------------------------- load_playlists, load_playlist_tracks
\* results.get("next")
HasNextNonEmpty(page) == page.next /\ page.items # <<>>
HasNext(page) == page.next

\* playlists.extend(results.get("items", []))
ExtendPlaylistsNew(acc, items) ==
    acc \o SelectSeq(items, LAMBDA i : i \notin Range(acc))
ExtendPlaylists(acc, items) == acc \o items

\* for item in items: track = item.get("track"); if track: tracks.append(track)
RECURSIVE AppendTracks(_, _)
AppendTracks(acc, items) ==
    IF items = <<>> THEN acc
    ELSE AppendTracks(IF Head(items).track # None
                      THEN Append(acc, Head(items).track)
                      ELSE acc,
                      Tail(items))

\* The loop body's accumulation, by endpoint.
Accumulate(kind, acc, items) ==
    IF kind = "playlists" THEN ExtendPlaylists(acc, items)
    ELSE AppendTracks(acc, items)

\* What the function returns when a page request raises: load_playlists
\* returns [] from its handler, load_playlist_tracks falls through to
\* "return tracks" with what it has accumulated.
OnFetchError(kind, acc) == IF kind = "playlists" THEN <<>> ELSE acc

\* sp.current_user_playlists() / sp.playlist_items(...) is about to be called.
StartFetch(kind, table) ==
    [status |-> "running", kind |-> kind, table |-> table, cursor |-> 1,
     acc |-> <<>>, requests |-> 0, failed |-> FALSE, ret |-> <<>>]

\* One page request of the loop (the first call, or sp.next(results)) and
\* the processing of the page it returns.  The request raises on a network
\* or API failure, and when the remote rejects an expired access token.
FetchPage(s) ==
    /\ fetch[s].status = "running"
    /\ IsSet(sp[s])
    /\ actor' = s
    /\ sent' = [sent EXCEPT ![s] = Status(Val(sp[s]))]
    /\ LET f == fetch[s]
           page == f.table[f.cursor]
           acc == Accumulate(f.kind, f.acc, page.items)
       IN  \/ /\ ApiAccepts(Val(sp[s]))
              /\ fetch' = [fetch EXCEPT ![s] =
                    IF HasNext(page)
                    THEN [f EXCEPT !.requests = @ + 1, !.acc = acc,
                                   !.cursor = @ + 1]
                    ELSE [f EXCEPT !.requests = @ + 1, !.acc = acc,
                                   !.status = "returned", !.ret = acc]]
           \/ fetch' = [fetch EXCEPT ![s] =
                    [f EXCEPT !.requests = @ + 1, !.status = "returned",
                              !.failed = TRUE,
                              !.ret = OnFetchError(f.kind, f.acc)]]
    /\ UNCHANGED <<now, configured, consumed, runs, ss, qp, pc, ev, sp, screen, loop,
                   shown, submitted>>

\* ------------------------------------------------------------ app entry
\* for color, pid in ss.color_playlists.items(): the colours in dict order,
\* which is the order of COLORS.
AssignedColorsFirst(cp) ==
    LET all == SelectSeq(COLORS, LAMBDA c : c \in DOMAIN cp)
    IN  IF all = <<>> THEN <<>> ELSE <<Head(all)>>
AssignedColors(cp) == SelectSeq(COLORS, LAMBDA c : c \in DOMAIN cp)

\* Lines 322-336 after ensure_spotify: sidebar_nav and the page dispatch, up
\* to the first call that talks to the remote.  The widget event that
\* triggered the run is read here, where the script first looks at a widget.
Dispatch(s, e) ==
    /\ pc[s] = "sidebar_nav"
    /\ actor' = s
    /\ LET page == IF e.widget = "radio" THEN e.page ELSE ss[s].page
           st == ss[s]
           left == IF e = NoEvent /\ screen[s] THEN "pending" ELSE "consumed"
       IN  /\ ss' = SetField(ss, s, "page", page)
           /\ CASE page = "About" ->
                    /\ Stop(s)
                    /\ UNCHANGED <<fetch, loop>>
                [] page = "Setup" ->
                    /\ IF st.all_playlists = <<>>
                       THEN /\ fetch' = [fetch EXCEPT ![s] =
                                   StartFetch("playlists", UserPlaylistPages)]
                            /\ pc' = [pc EXCEPT ![s] = "entry_playlists"]
                       ELSE /\ pc' = [pc EXCEPT ![s] = "render_setup"]
                            /\ UNCHANGED fetch
                    /\ ev' = [ev EXCEPT ![s] = left]
                    /\ UNCHANGED <<sp, screen, loop>>
                [] OTHER ->
                    /\ IF DOMAIN st.tracks_cache = {}
                          /\ DOMAIN st.color_playlists # {}
                       THEN LET todo == AssignedColors(st.color_playlists)
                            IN  /\ loop' = [loop EXCEPT ![s] = todo]
                                /\ fetch' = [fetch EXCEPT ![s] =
                                      StartFetch("tracks",
                                        PlaylistItemPages(
                                          st.color_playlists[Head(todo)]))]
                                /\ pc' = [pc EXCEPT ![s] = "cache_tracks"]
                       ELSE /\ pc' = [pc EXCEPT ![s] = "render_game"]
                            /\ UNCHANGED <<fetch, loop>>
                    /\ ev' = [ev EXCEPT ![s] = left]
                    /\ UNCHANGED <<sp, screen>>
    /\ UNCHANGED <<now, configured, consumed, runs, qp, shown, sent,
                   submitted>>

\* The radio of the sidebar is on the screen once a run has rendered it.
SidebarNav(s) ==
    \E e \in {NoEvent} \cup (IF screen[s]
                             THEN {Event("radio", p, 0) :
                                      p \in Pages \ {ss[s].page}}
                             ELSE {}) :
        Dispatch(s, e)

\* Line 329: ss.all_playlists = load_playlists(sp), then render_setup.
EntryPlaylistsReturn(s) ==
    /\ pc[s] = "entry_playlists"
    /\ fetch[s].status = "returned"
    /\ actor' = s
    /\ ss' = SetField(ss, s, "all_playlists", fetch[s].ret)
    /\ fetch' = [fetch EXCEPT ![s] = NoFetch]
    /\ pc' = [pc EXCEPT ![s] = "render_setup"]
    /\ UNCHANGED <<now, configured, consumed, runs, qp, ev, sp, screen, loop, shown,
                   sent, submitted>>

\* ss.tracks_cache[color] = load_playlist_tracks(sp, pid) for the colour at
\* the head of the loop, then the next colour, or `after` when none is left
\* (Save Setup then reports its success, line 218, and the script ends).
TracksReturn(s, at, after) ==
    /\ pc[s] = at
    /\ fetch[s].status = "returned"
    /\ actor' = s
    /\ LET color == Head(loop[s])
           rest == Tail(loop[s])
       IN  /\ ss' = SetField(ss, s, "tracks_cache",
                       DictSet(ss[s].tracks_cache, color, fetch[s].ret))
           /\ loop' = [loop EXCEPT ![s] = rest]
           /\ IF rest # <<>>
              THEN /\ fetch' = [fetch EXCEPT ![s] =
                         StartFetch("tracks",
                           PlaylistItemPages(ss[s].color_playlists[Head(rest)]))]
                   /\ UNCHANGED <<pc, ev, sp, screen, shown>>
              ELSE /\ fetch' = [fetch EXCEPT ![s] = NoFetch]
                   /\ IF after = "idle"
                      THEN /\ Stop(s)
                           /\ shown' = [shown EXCEPT ![s] = "setup_saved"]
                      ELSE /\ pc' = [pc EXCEPT ![s] = after]
                           /\ UNCHANGED <<ev, sp, screen, shown>>
    /\ UNCHANGED <<now, configured, consumed, runs, qp, sent, submitted>>

\* Lines 332-335: the Game Play page caches the tracks of every colour.
\* (A Save Setup run that completes leaves an entry for every assigned
\* colour; runs are not interrupted here, so the script never finds the
\* cache empty with a colour assigned.)
CacheTracksReturn(s) == TracksReturn(s, "cache_tracks", "render_game")

\* ---------------------------------------------------------- render_setup
\* [f"Team {t} - Player {p}" for t in range(1, teams + 1)
\*                           for p in range(1, players_per_team + 1)]
build_player_order_by_player(teams, players_per_team) ==
    [i \in 1..(teams * players_per_team) |->
        <<((i - 1) % teams) + 1, ((i - 1) \div teams) + 1>>]
build_player_order(teams, players_per_team) ==
    [i \in 1..(teams * players_per_team) |->
        <<((i - 1) \div players_per_team) + 1,
          ((i - 1) % players_per_team) + 1>>]

\* {p['name']: p['id'] for p in ss.all_playlists}
RECURSIVE NameToId(_)
NameToId(playlists) ==
    IF playlists = <<>> THEN EmptyDict
    ELSE LET last == playlists[Len(playlists)]
         IN  DictSet(NameToId(SubSeq(playlists, 1, Len(playlists) - 1)),
                     last.name, last.id)

\* ["-- None --"] + playlist_names
Options(playlists) ==
    {NoneOption} \cup {playlists[i].name : i \in 1..Len(playlists)}

\* Lines 206-212: the assignment Save Setup builds from the select boxes.
SavedAssignment(selects, name_to_id) ==
    LET chosen == {c \in ColorSet : /\ selects[c] # NoneOption
                                    /\ selects[c] \in DOMAIN name_to_id}
    IN  [c \in chosen |-> name_to_id[selects[c]]]

\* Lines 173-184: the two number inputs, then the playlists are (re)loaded
\* when Refresh is pressed or none is held.
RenderSetup(s) ==
    /\ pc[s] = "render_setup"
    /\ actor' = s
    /\ \E e \in Observed(s,
              {Event("Number of teams", None, n) :
                  n \in (1..MaxTeams) \ {ss[s].teams_count}}
              \cup {Event("Players per team", None, n) :
                  n \in (1..MaxPlayersPerTeam) \ {ss[s].players_per_team}}
              \cup {Click("Refresh Spotify Playlists")}) :
       /\ ss' = [ss EXCEPT ![s] =
             [@ EXCEPT !.teams_count =
                         IF e.widget = "Number of teams" THEN e.n ELSE @,
                       !.players_per_team =
                         IF e.widget = "Players per team" THEN e.n ELSE @]]
       /\ ev' = [ev EXCEPT ![s] = After(s, e)]
       /\ IF \/ e.widget = "Refresh Spotify Playlists"
             \/ ss[s].all_playlists = <<>>
          THEN /\ fetch' = [fetch EXCEPT ![s] =
                      StartFetch("playlists", UserPlaylistPages)]
               /\ pc' = [pc EXCEPT ![s] = "setup_playlists"]
          ELSE /\ pc' = [pc EXCEPT ![s] = "setup_form"]
               /\ UNCHANGED fetch
    /\ UNCHANGED <<now, configured, consumed, runs, qp, sp, screen, loop,
                   shown, sent, submitted>>

\* Line 182: ss.all_playlists = load_playlists(sp).
SetupPlaylistsReturn(s) ==
    /\ pc[s] = "setup_playlists"
    /\ fetch[s].status = "returned"
    /\ actor' = s
    /\ ss' = SetField(ss, s, "all_playlists", fetch[s].ret)
    /\ fetch' = [fetch EXCEPT ![s] = NoFetch]
    /\ pc' = [pc EXCEPT ![s] = "setup_form"]
    /\ UNCHANGED <<now, configured, consumed, runs, qp, ev, sp, screen, loop, shown,
                   sent, submitted>>

\* Lines 186-222: the select boxes, Save Setup (up to the first track
\* request) and the Go to Game Play button.
SetupForm(s) ==
    /\ pc[s] = "setup_form"
    /\ actor' = s
    /\ \E e \in Observed(s, {Click("Save Setup"), Click("Go to Game Play")}) :
       LET st == ss[s]
       IN  CASE e.widget = "Save Setup" ->
                  \E selects \in [ColorSet -> Options(st.all_playlists)] :
                    LET cp == SavedAssignment(selects,
                                              NameToId(st.all_playlists))
                        todo == AssignedColors(cp)
                    IN  /\ ss' = [ss EXCEPT ![s] =
                              [@ EXCEPT !.color_playlists = cp,
                                        !.tracks_cache = EmptyDict,
                                        !.player_order =
                                           build_player_order(st.teams_count,
                                                              st.players_per_team),
                                        !.current_player_index = 0]]
                        /\ IF todo # <<>>
                           THEN /\ loop' = [loop EXCEPT ![s] = todo]
                                /\ fetch' = [fetch EXCEPT ![s] =
                                      StartFetch("tracks",
                                                 PlaylistItemPages(cp[Head(todo)]))]
                                /\ pc' = [pc EXCEPT ![s] = "save_tracks"]
                                /\ ev' = [ev EXCEPT ![s] = "consumed"]
                                /\ UNCHANGED <<sp, screen, shown>>
                           ELSE /\ Stop(s)
                                /\ shown' = [shown EXCEPT ![s] = "setup_saved"]
                                /\ UNCHANGED <<fetch, loop>>
             [] e.widget = "Go to Game Play" ->
                  /\ ss' = SetField(ss, s, "page", "Game Play")
                  /\ Stop(s)
                  /\ UNCHANGED <<fetch, loop, shown>>
             [] OTHER ->
                  /\ Stop(s)
                  /\ UNCHANGED <<ss, fetch, loop, shown>>
    /\ UNCHANGED <<now, configured, consumed, runs, qp, sent, submitted>>

\* Lines 215-218: Save Setup preloads the tracks of every assigned colour.
SaveTracksReturn(s) == TracksReturn(s, "save_tracks", "idle")

\* ----------------------------------------------------------- render_game
\* [c for c in COLORS if ss.tracks_cache.get(c)]
AvailableUnfiltered(cache) == SelectSeq(COLORS, LAMBDA c : c \in DOMAIN cache)
Available(cache) ==
    SelectSeq(COLORS, LAMBDA c : DictGet(cache, c, <<>>) # <<>>)

\* random.choice(available) if available else None: the possible draws.
draw_color_with_tracks(cache) ==
    IF Available(cache) = <<>> THEN {None} ELSE Range(Available(cache))

\* random.choice(tracks), reached only with a colour whose list is not empty.
TrackChoices(cache, color) ==
    LET tracks == DictGet(cache, color, <<>>)
    IN  IF color = None \/ tracks = <<>> THEN {None} ELSE Range(tracks)

\* The fields every round starts from (lines 232-237 and 312-318).
ResetRoundKeepReveal(st, roll, color) ==
    [st EXCEPT !.last_roll = roll,
               !.current_color = color,
               !.current_track = None,
               !.timer_running = FALSE,
               !.timer_started_at = Nothing,
               !.elapsed_last_round = Nothing]
ResetRound(st, roll, color) ==
    [st EXCEPT !.last_roll = roll,
               !.current_color = color,
               !.current_track = None,
               !.reveal_answer = FALSE,
               !.timer_running = FALSE,
               !.timer_started_at = Nothing,
               !.elapsed_last_round = Nothing]

\* start_round with the die showing roll and the two random choices made.
start_round(st, roll, color, track) ==
    [ResetRound(st, roll, color) EXCEPT !.current_track = track]

\* The warning start_round reports, if any.
RoundWarning(st, color) ==
    IF color = None THEN "no_colors_warning"
    ELSE IF DictGet(st.tracks_cache, color, <<>>) = <<>>
         THEN "no_tracks_warning"
         ELSE "round_started"

\* Lines 309-318: Next Player.
NextPlayerKeepRound(st) ==
    [st EXCEPT !.current_player_index = (@ + 1) % Len(st.player_order)]
NextPlayerNoWrap(st) ==
    [ResetRound(st, 0, None) EXCEPT !.current_player_index = @ + 1]
NextPlayer(st) ==
    [ResetRound(st, 0, None) EXCEPT
        !.current_player_index = (@ + 1) % Len(st.player_order)]

\* render_timer_and_controls, lines 252-263.
TimerAndControls(st, widget) ==
    CASE widget = "Play" ->
            [st EXCEPT !.timer_running = TRUE,
                       !.timer_started_at = Some(now)]
      [] widget = "Pause" /\ st.timer_running /\ IsSet(st.timer_started_at) ->
            [st EXCEPT !.timer_running = FALSE,
                       !.elapsed_last_round = Some(now - Val(st.timer_started_at))]
      [] widget = "Show Answer" ->
            [st EXCEPT !.reveal_answer = TRUE]
      [] OTHER -> st

\* render_game, lines 280-318.  The lookup of the current player raises when
\* the index is out of range, which ends the run.  The timer controls are
\* rendered only while a track is selected.  Next Player reports nothing:
\* shown records that the run handled the press.
RenderGame(s) ==
    /\ pc[s] = "render_game"
    /\ actor' = s
    /\ Stop(s)
    /\ LET st == ss[s]
       IN  IF \/ st.player_order = <<>>
              \/ DOMAIN st.color_playlists = {}
              \/ st.current_player_index >= Len(st.player_order)
           THEN UNCHANGED <<ss, shown>>
           ELSE \E e \in Observed(s,
                     {Click("Roll Dice"), Click("Next Player")}
                     \cup (IF st.current_track # None
                           THEN {Click("Play"), Click("Pause"),
                                 Click("Show Answer")}
                           ELSE {})) :
                CASE e.widget = "Roll Dice" ->
                      \E roll \in 1..MaxRoll :
                      \E color \in draw_color_with_tracks(st.tracks_cache) :
                      \E track \in TrackChoices(st.tracks_cache, color) :
                        /\ ss' = [ss EXCEPT ![s] =
                                    start_round(st, roll, color, track)]
                        /\ shown' = [shown EXCEPT ![s] =
                                       RoundWarning(st, color)]
                  [] e.widget = "Next Player" ->
                      /\ ss' = [ss EXCEPT ![s] = NextPlayer(st)]
                      /\ shown' = [shown EXCEPT ![s] = "next_player"]
                  [] OTHER ->
                      /\ ss' = [ss EXCEPT ![s] =
                                  TimerAndControls(st, e.widget)]
                      /\ UNCHANGED shown
    /\ UNCHANGED <<now, configured, consumed, runs, qp, fetch, loop, sent,
                   submitted>>

\* ------------------------------------------------------ specifications
\* Every step of the script of session s after the run has begun.
RunStep(s) ==
    \/ GetSpotifyClient(s)
    \/ FetchPage(s)
    \/ SidebarNav(s)
    \/ EntryPlaylistsReturn(s)
    \/ RenderSetup(s)
    \/ SetupPlaylistsReturn(s)
    \/ SetupForm(s)
    \/ SaveTracksReturn(s)
    \/ CacheTracksReturn(s)
    \/ RenderGame(s)

\* One session using the app.
Next ==
    \/ Tick
    \/ StartRun(1)
    \/ RunStep(1)

Spec == Init /\ [][Next]_vars

\* Two sessions using the app, their script runs interleaved step by step.
\* Both browser tabs were opened by a redirect of the authorization
\* endpoint, the second on the same URL as the first or on another one.
InitTwo ==
    /\ InitCommon
    /\ InitIdle
    /\ consumed = {}
    /\ configured \in BOOLEAN
    /\ \E code \in Codes : qp = [s \in Sessions |-> IF s = 1 THEN "c1" ELSE code]

NextTwo ==
    \/ Tick
    \/ \E s \in Sessions : StartRun(s)
    \/ \E s \in Sessions : RunStep(s)

SpecTwo == InitTwo /\ [][NextTwo]_vars

\* The token lifecycle alone: one session whose user only reruns the script
\* (the About page), for as long as they like.  A run that has begun goes on
\* to its end, and the user keeps rerunning.
Rerun(s) == BeginRun(s) /\ UNCHANGED runs
AboutPage(s) == Dispatch(s, NoEvent)

NextAuth ==
    \/ Tick
    \/ Rerun(1)
    \/ GetSpotifyClient(1)
    \/ AboutPage(1)

SpecAuth ==
    /\ Init
    /\ [][NextAuth]_vars
    /\ WF_vars(Rerun(1))
    /\ WF_vars(GetSpotifyClient(1))
    /\ WF_vars(AboutPage(1))

\* load_playlists and load_playlist_tracks as functions of the pages the
\* remote serves: every table of at most MaxPages pages of at most MaxItems
\* items whose last page has no next cursor, for either endpoint.
SeqsUpTo(S, n) == UNION {[1..k -> S] : k \in 0..n}
PlaylistItems == {Playlist("p1", "Rock"), Playlist("p2", "Jazz")}
TrackItems == {Item(t) : t \in Tracks \cup {None}}
PagesOf(items) ==
    {Page(i, more) : i \in SeqsUpTo(items, MaxItems), more \in BOOLEAN}
Tables(items) ==
    {t \in SeqsUpTo(PagesOf(items), MaxPages) :
        t # <<>> /\ ~t[Len(t)].next}

InitFetch ==
    /\ InitCommon
    /\ consumed = {}
    /\ configured = TRUE
    /\ qp = [s \in Sessions |-> None]
    /\ \E kind \in {"playlists", "tracks"} :
       \E table \in Tables(IF kind = "playlists" THEN PlaylistItems
                           ELSE TrackItems) :
          /\ fetch = [s \in Sessions |->
                        IF s = 1 THEN StartFetch(kind, table) ELSE NoFetch]
          /\ sp = [s \in Sessions |->
                     IF s = 1 THEN Some(NewTokenAt(1)) ELSE Nothing]

NextFetch == FetchPage(1)

SpecFetch == InitFetch /\ [][NextFetch]_vars

\* The game from the Setup page on: session 1 has authorized (run 1) and
\* opened the Setup page, which loaded both playlists (run 2); runs are
\* counted from here.
SetupOpened ==
    [s \in Sessions |->
        IF s = 1
        THEN [Defaults EXCEPT
                !.page = "Setup",
                !.token_info = Some(NewTokenAt(1)),
                !.all_playlists = Concat([i \in 1..Len(UserPlaylistPages) |->
                                            UserPlaylistPages[i].items])]
        ELSE Defaults]

InitGame ==
    /\ now = 1
    /\ runs = 0
    /\ actor = 1
    /\ configured = TRUE
    /\ consumed = {"c1"}
    /\ ss = SetupOpened
    /\ qp = [s \in Sessions |-> None]
    /\ pc = [s \in Sessions |-> "idle"]
    /\ ev = [s \in Sessions |-> "none"]
    /\ screen = [s \in Sessions |-> s = 1]
    /\ loop = [s \in Sessions |-> <<>>]
    /\ shown = [s \in Sessions |-> IF s = 1 THEN "connected" ELSE "none"]
    /\ sent = [s \in Sessions |-> IF s = 1 THEN "fresh" ELSE "none"]
    /\ submitted = [s \in Sessions |-> IF s = 1 THEN {"c1"} ELSE {}]
    /\ InitIdle

\* The secrets are present and the query string holds no code, so of
\* get_spotify_client the branches from line 80 on are the ones that run.
StartGameRun(s) ==
    /\ runs < MaxGameRuns
    /\ runs' = runs + 1
    /\ BeginRun(s)

NextGame ==
    \/ Tick
    \/ StartGameRun(1)
    \/ ShowAuthorizeUrl(1)
    \/ CheckExpiry(1)
    \/ Validate(1)
    \/ FetchPage(1)
    \/ SidebarNav(1)
    \/ EntryPlaylistsReturn(1)
    \/ RenderSetup(1)
    \/ SetupPlaylistsReturn(1)
    \/ SetupForm(1)
    \/ SaveTracksReturn(1)
    \/ CacheTracksReturn(1)
    \/ RenderGame(1)

SpecGame == InitGame /\ [][NextGame]_vars

\* ================================================================ claims
\* The pages of a table that are linked from the first one, and their items.
ChainLen(table) ==
    CHOOSE n \in 1..Len(table) :
        ~table[n].next /\ \A m \in 1..(n - 1) : table[m].next
ChainItems(table) ==
    Concat([i \in 1..ChainLen(table) |-> table[i].items])
TracksOf(items) == [i \in 1..Len(items) |-> items[i].track]

\* C1: when the stored credential is found expired and the refresh fails,
\* the credential is cleared, the run returns no client and stops; the next
\* run with no code in the query string shows the authorization URL and
\* stops, without retrying the refresh.
C1_RefreshFailureClearsCredential ==
    [][\A s \in Sessions :
        /\ ( /\ actor' = s
             /\ pc[s] # "idle"
             /\ IsSet(ss[s].token_info)
             /\ IsTokenExpired(Val(ss[s].token_info))
             /\ shown'[s] = "refresh_error" )
           => /\ ss'[s].token_info = Nothing
              /\ sp'[s] = Nothing
              /\ pc'[s] = "idle"
              /\ ~screen'[s]
        /\ ( /\ actor' = s
             /\ pc[s] = "get_spotify_client"
             /\ shown[s] = "refresh_error"
             /\ qp[s] = None )
           => /\ shown'[s] = "authorize_url"
              /\ pc'[s] = "idle"
              /\ ss'[s] = ss[s]
              /\ ss'[s].token_info = Nothing
    ]_vars

\* C1 witness: a run has ended in a refresh failure, the credential is gone
\* and the query string holds no code.
C1_Witness ==
    \E s \in Sessions :
        /\ shown[s] = "refresh_error"
        /\ pc[s] = "idle"
        /\ ss[s].token_info = Nothing
        /\ qp[s] = None

\* C2: every request sent with the session's access token carries a
\* credential that is unexpired at the time of the request.
C2_RequestsCarryUnexpiredCredential ==
    \A s \in Sessions : sent[s] # "expired"

\* C3: an authorization code is submitted to the token endpoint at most
\* once per session: no run submits a code the session has submitted before.
C3_CodeSubmittedAtMostOnce ==
    [][\A s \in Sessions :
        ( /\ actor' = s
          /\ pc[s] = "get_spotify_client"
          /\ configured
          /\ ~IsSet(ss[s].token_info)
          /\ qp[s] # None )
        => qp[s] \notin submitted[s]
    ]_vars

\* C4: the stored credential goes from set to cleared only when a token
\* refresh fails (the model has no explicit re-authorization).
C4_ClearedOnlyOnRefreshFailure ==
    [][\A s \in Sessions :
        (IsSet(ss[s].token_info) /\ ~IsSet(ss'[s].token_info))
        => shown'[s] = "refresh_error"
    ]_vars

\* C5: a paginated fetch in which a page request failed returns no items,
\* never a prefix of the collection.
C5_FailedFetchReturnsNothing ==
    \A s \in Sessions :
        (fetch[s].status = "returned" /\ fetch[s].failed)
        => fetch[s].ret = <<>>

\* C6 as stated: a fetch without failure returns every item of every linked
\* page in order: every playlist, and the track of every playlist item.
C6_FetchReturnsEveryItem ==
    \A s \in Sessions :
        (fetch[s].status = "returned" /\ ~fetch[s].failed)
        => fetch[s].ret =
              IF fetch[s].kind = "playlists"
              THEN ChainItems(fetch[s].table)
              ELSE TracksOf(ChainItems(fetch[s].table))

\* C6 as amended: a fetch without failure returns, in server order and
\* without deduplication, every playlist of every linked page, and the
\* track of every playlist item that has one (items whose track is null
\* are skipped).
C6_FetchReturnsEveryItemWithTrack ==
    \A s \in Sessions :
        (fetch[s].status = "returned" /\ ~fetch[s].failed)
        => fetch[s].ret =
              IF fetch[s].kind = "playlists"
              THEN ChainItems(fetch[s].table)
              ELSE SelectSeq(TracksOf(ChainItems(fetch[s].table)),
                             LAMBDA t : t # None)

\* C6 witness: a track fetch over two linked pages, one item of which has no
\* track, has returned two tracks.
C6_Witness ==
    \E s \in Sessions :
        /\ fetch[s].status = "returned"
        /\ ~fetch[s].failed
        /\ fetch[s].kind = "tracks"
        /\ ChainLen(fetch[s].table) = 2
        /\ \E i \in DOMAIN ChainItems(fetch[s].table) :
              ChainItems(fetch[s].table)[i].track = None
        /\ Len(fetch[s].ret) = 2

\* C7: a paginated fetch requests the linked pages one after the other and
\* nothing else: while it runs it has requested exactly the pages before its
\* cursor, which never passes the first page without a next cursor, and when
\* it returns without failure it has requested exactly the linked pages, an
\* empty page with a next cursor included.
C7_FetchStopsAtFirstNullCursor ==
    \A s \in Sessions :
        LET f == fetch[s]
        IN  /\ f.status = "running"
               => /\ f.cursor <= ChainLen(f.table)
                  /\ f.requests = f.cursor - 1
            /\ f.status = "returned"
               => f.requests <= ChainLen(f.table)
            /\ (f.status = "returned" /\ ~f.failed)
               => f.requests = ChainLen(f.table)

\* C7 witness: a fetch whose first page is empty but has a next cursor has
\* returned after two requests.
C7_Witness ==
    \E s \in Sessions :
        /\ fetch[s].status = "returned"
        /\ ~fetch[s].failed
        /\ fetch[s].table[1].items = <<>>
        /\ fetch[s].table[1].next
        /\ fetch[s].requests = 2
        /\ fetch[s].ret # <<>>

\* C8: after an authorization-code exchange that failed on a code the token
\* endpoint no longer accepts, a later run of the session shows the
\* authorization URL again (the session does not keep reporting the exchange
\* error on every run).
C8_ExchangeFailureLeadsToAuthorizeUrl ==
    \A s \in Sessions :
        (shown[s] = "exchange_error" /\ qp[s] \in consumed)
            ~> (shown[s] = "authorize_url")

\* C9: a Roll Dice run always ends, with a roll on the die; when no colour
\* has a non-empty cached track list it reports the warning and leaves
\* current_color and current_track unset; otherwise the drawn colour has a
\* non-empty cached list and the chosen track is an element of that list.
C9_RollNeverPicksFromEmpty ==
    [][\A s \in Sessions :
        ( /\ actor' = s
          /\ pc[s] = "render_game"
          /\ shown'[s] \in {"round_started", "no_colors_warning",
                            "no_tracks_warning"} )
        => LET cache == ss[s].tracks_cache
               nonempty == {c \in DOMAIN cache : cache[c] # <<>>}
               after == ss'[s]
           IN  /\ pc'[s] = "idle"
               /\ after.last_roll \in 1..MaxRoll
               /\ after.tracks_cache = cache
               /\ IF nonempty = {}
                  THEN /\ shown'[s] = "no_colors_warning"
                       /\ after.current_color = None
                       /\ after.current_track = None
                  ELSE /\ shown'[s] = "round_started"
                       /\ after.current_color \in nonempty
                       /\ after.current_track
                             \in Range(cache[after.current_color])
    ]_vars

\* C9 witness: Roll Dice was pressed with a colour assigned and every cached
\* track list empty; the warning was reported and nothing was selected.
C9_Witness ==
    \E s \in Sessions :
        /\ pc[s] = "idle"
        /\ shown[s] = "no_colors_warning"
        /\ ss[s].last_roll # 0
        /\ DOMAIN ss[s].tracks_cache # {}
        /\ ss[s].current_color = None
        /\ ss[s].current_track = None

\* C10: a step of one session leaves the other session's session state
\* (credential, cached collections, game state) and query string unchanged.
C10_SessionsAreIsolated ==
    [][\A s \in Sessions :
        actor' # s => (ss'[s] = ss[s] /\ qp'[s] = qp[s])
    ]_vars

\* C10 witness: one session has just finished a Roll Dice round on its own
\* cached tracks while the other session holds a credential and has set
\* nothing up.
C10_Witness ==
    \E s, o \in Sessions :
        /\ s # o
        /\ actor = s
        /\ ss[s].current_track # None
        /\ IsSet(ss[s].token_info)
        /\ IsSet(ss[o].token_info)
        /\ DOMAIN ss[o].tracks_cache = {}
        /\ ss[o].current_track = None

\* C11: no collection fetch and no page rendering happens in a run unless
\* the run first obtained a client: wherever the script stands past
\* ensure_spotify (sidebar, page dispatch, a page, a fetch in progress or
\* returned) the session's credential is set, the run holds a client built
\* from that credential, and the validation call of the run succeeded.
C11_PagesAndFetchesNeedClient ==
    \A s \in Sessions :
        (pc[s] \notin {"idle", "get_spotify_client", "check_expiry",
                       "validate"}
         \/ fetch[s].status # "none")
        => /\ IsSet(ss[s].token_info)
           /\ IsSet(sp[s])
           /\ sp[s] = ss[s].token_info
           /\ shown[s] = "connected"

\* C11 witness: Save Setup is loading the tracks of a colour, one page
\* already requested, with the client of the run.
C11_Witness ==
    \E s \in Sessions :
        /\ pc[s] = "save_tracks"
        /\ fetch[s].status = "running"
        /\ fetch[s].requests >= 1
        /\ IsSet(sp[s])
        /\ IsSet(ss[s].token_info)

\* C12: between runs, whenever current_track is set, current_color is set,
\* current_color has a playlist assigned in color_playlists, and
\* current_track is one of the tracks cached for current_color.
C12_TrackBelongsToDrawnColor ==
    \A s \in Sessions :
        (pc[s] = "idle" /\ ss[s].current_track # None)
        => /\ ss[s].current_color # None
           /\ ss[s].current_color \in DOMAIN ss[s].color_playlists
           /\ ss[s].current_color \in DOMAIN ss[s].tracks_cache
           /\ ss[s].current_track
                 \in Range(ss[s].tracks_cache[ss[s].current_color])

\* C13: the answer stays hidden until the user asks for it: reveal_answer is
\* false right after every Roll Dice and every Next Player; it goes from
\* false to true only in a render_game step with a track selected that
\* changes nothing else (the Show Answer press); and whenever reveal_answer
\* is true, current_track is set.
C13_AnswerHiddenUntilAsked ==
    [][\A s \in Sessions :
        /\ ( /\ actor' = s
             /\ pc[s] = "render_game"
             /\ shown'[s] \in {"round_started", "no_colors_warning",
                               "no_tracks_warning", "next_player"} )
           => ~ss'[s].reveal_answer
        /\ (~ss[s].reveal_answer /\ ss'[s].reveal_answer)
           => /\ actor' = s
              /\ pc[s] = "render_game"
              /\ ss[s].current_track # None
              /\ ss'[s] = [ss[s] EXCEPT !.reveal_answer = TRUE]
        /\ ss'[s].reveal_answer => ss'[s].current_track # None
    ]_vars

\* C13 witness: after a Roll Dice that selected a track, Show Answer was
\* pressed and the answer is revealed.
C13_Witness ==
    \E s \in Sessions :
        /\ pc[s] = "idle"
        /\ ss[s].last_roll # 0
        /\ ss[s].current_track # None
        /\ ss[s].reveal_answer

\* C14: whenever player_order is not empty, 0 <= current_player_index <
\* len(player_order), so the lookup of the current player in render_game is
\* never out of range; a Save Setup that changes player_order puts the turn
\* back on its first entry.
C14_TurnIndexInRange ==
    [][\A s \in Sessions :
        /\ ss'[s].player_order # <<>>
           => ss'[s].current_player_index
                 \in 0..(Len(ss'[s].player_order) - 1)
        /\ ss'[s].player_order # ss[s].player_order
           => /\ pc[s] = "setup_form"
              /\ ss'[s].current_player_index = 0
    ]_vars

\* C14 witness: Save Setup has just been repeated after a round was played
\* (a track is still selected), with fewer players than the default two
\* teams of two.
C14_Witness ==
    \E s \in Sessions :
        /\ pc[s] = "idle"
        /\ shown[s] = "setup_saved"
        /\ ss[s].current_track # None
        /\ Len(ss[s].player_order) \in 1..3
        /\ ss[s].current_player_index = 0

\* A turn order of t teams of p players: every (team, player) pair once,
\* by team, then by player.
IsTeamThenPlayerOrder(order, t, p) ==
    /\ Len(order) = t * p
    /\ \A a \in 1..t : \A b \in 1..p : order[(a - 1) * p + b] = <<a, b>>
    /\ \A i, j \in 1..Len(order) : i # j => order[i] # order[j]

\* The session state after k presses of Next Player.
RECURSIVE Presses(_, _)
Presses(st, k) == IF k = 0 THEN st ELSE NextPlayer(Presses(st, k - 1))

\* C15: turns rotate round-robin.  A Save Setup press builds player_order
\* from teams_count and players_per_team, by team then by player, without
\* repetition, and puts the turn on its first entry; a Next Player press
\* moves the turn one position on, from the last entry to the first, and
\* leaves player_order alone; so len(player_order) presses bring the same
\* player back after every player has had the turn once.
C15_TurnsRotateRoundRobin ==
    [][\A s \in Sessions :
        LET st == ss[s]
            n == Len(st.player_order)
        IN  /\ ( /\ actor' = s
                 /\ pc[s] = "setup_form"
                 /\ (pc'[s] = "save_tracks" \/ shown'[s] = "setup_saved") )
               => /\ IsTeamThenPlayerOrder(ss'[s].player_order,
                                           st.teams_count,
                                           st.players_per_team)
                  /\ ss'[s].current_player_index = 0
            /\ ( /\ actor' = s
                 /\ pc[s] = "render_game"
                 /\ shown'[s] = "next_player" )
               => /\ ss'[s].player_order = st.player_order
                  /\ ss'[s].current_player_index =
                        IF st.current_player_index = n - 1
                        THEN 0 ELSE st.current_player_index + 1
                  /\ Presses(st, n).current_player_index
                        = st.current_player_index
                  /\ {Presses(st, k).current_player_index : k \in 0..(n - 1)}
                        = 0..(n - 1)
    ]_vars

\* C15 witness: Next Player was pressed on the last of several players and
\* the turn is back on the first.
C15_Witness ==
    \E s \in Sessions :
        /\ pc[s] = "idle"
        /\ shown[s] = "next_player"
        /\ Len(ss[s].player_order) >= 2
        /\ ss[s].current_player_index = 0

\* The tracks the remote holds for playlist pid, in order.
RemoteTracks(pid) ==
    SelectSeq(TracksOf(ChainItems(PlaylistItemPages(pid))),
              LAMBDA x : x # None)
IsPrefix(a, b) == Len(a) <= Len(b) /\ a = SubSeq(b, 1, Len(a))

\* C16: the tracks cache is coherent with the colour assignment: every
\* colour with an entry in tracks_cache has a playlist assigned in
\* color_playlists, the entry holds tracks of that playlist as the remote
\* serves them, and between runs (so after every Save Setup that has
\* completed) tracks_cache and color_playlists have the same colours.
C16_CacheMatchesAssignment ==
    \A s \in Sessions :
        LET cache == ss[s].tracks_cache
            cp == ss[s].color_playlists
        IN  /\ DOMAIN cache \subseteq DOMAIN cp
            /\ \A c \in DOMAIN cache :
                  IsPrefix(cache[c], RemoteTracks(cp[c]))
            /\ pc[s] = "idle" => DOMAIN cache = DOMAIN cp

\* C16 witness: Save Setup has completed with two colours assigned to two
\* different playlists, and the cache holds the tracks of the first.
C16_Witness ==
    \E s \in Sessions :
        /\ pc[s] = "idle"
        /\ shown[s] = "setup_saved"
        /\ DOMAIN ss[s].color_playlists = ColorSet
        /\ ss[s].color_playlists["Red"] # ss[s].color_playlists["Orange"]
        /\ DOMAIN ss[s].tracks_cache = ColorSet
        /\ \E c \in ColorSet :
              ss[s].tracks_cache[c] = RemoteTracks(ss[s].color_playlists[c])
              /\ ss[s].tracks_cache[c] # <<>>

\* C17: pressing Next Player changes only the turn and the round: it
\* advances current_player_index, puts last_roll, current_color,
\* current_track, reveal_answer, timer_running, timer_started_at and
\* elapsed_last_round back to their initial values, and leaves token_info,
\* all_playlists, color_playlists, tracks_cache, player_order, teams_count,
\* players_per_team and the page unchanged.
C17_NextPlayerFrame ==
    [][\A s \in Sessions :
        ( /\ actor' = s
          /\ pc[s] = "render_game"
          /\ shown'[s] = "next_player" )
        => LET before == ss[s]
               after == ss'[s]
           IN  /\ after.current_player_index =
                     (before.current_player_index + 1)
                        % Len(before.player_order)
               /\ after.last_roll = Defaults.last_roll
               /\ after.current_color = Defaults.current_color
               /\ after.current_track = Defaults.current_track
               /\ after.reveal_answer = Defaults.reveal_answer
               /\ after.timer_running = Defaults.timer_running
               /\ after.timer_started_at = Defaults.timer_started_at
               /\ after.elapsed_last_round = Defaults.elapsed_last_round
               /\ after.token_info = before.token_info
               /\ after.all_playlists = before.all_playlists
               /\ after.color_playlists = before.color_playlists
               /\ after.tracks_cache = before.tracks_cache
               /\ after.player_order = before.player_order
               /\ after.teams_count = before.teams_count
               /\ after.players_per_team = before.players_per_team
               /\ after.page = before.page
    ]_vars

\* C17 witness: Next Player was pressed in a game with tracks cached; the
\* turn has moved on and the round is cleared.
C17_Witness ==
    \E s \in Sessions :
        /\ pc[s] = "idle"
        /\ shown[s] = "next_player"
        /\ ss[s].current_player_index >= 1
        /\ \E c \in DOMAIN ss[s].tracks_cache : ss[s].tracks_cache[c] # <<>>
        /\ IsSet(ss[s].token_info)
        /\ ss[s].current_track = None
        /\ ss[s].last_roll = 0

====
